---- MODULE Spec2Model ----
(***************************************************************************)
(* Model of Tasks/UnityBuild/UnityBuildV3/unity-build.ts: the run() entry  *)
(* point of the Unity build task, with getBuildConfiguration and           *)
(* getUnityEditorsPath.                                                    *)
(*                                                                         *)
(* Strings are sequences of letters.  A letter is a TLA+ string standing   *)
(* for one character of the program's string, so length, substr, indexOf,  *)
(* split and trim act on them as they act on characters.  "repo" is the    *)
(* one-letter string <<"repo">>, "/repo/build.log" is                      *)
(* <<"/", "repo", "/", "build.log">>.                                      *)
(***************************************************************************)
EXTENDS Integers, Sequences, FiniteSets, TLC

\* ------------------------------------------------------------------ bounds

\* Longest ProjectVersion.txt content (in letters) drawn by SpecParse.
MaxContentLen == 5
\* Number of files that may already lie in the build output directory.
MaxOldFiles == 1

\* --------------------------------------------------------------- strings

\* JavaScript's undefined, as a value comparable with every string.
Undefined == <<"<undefined>">>

S(letter) == <<letter>>

\* A template literal `${x}` (lines 18, 19, 27, 41, 42, 65, 108).
Template(x) == IF x = Undefined THEN S("undefined") ELSE x

\* !x for a string or undefined (line 75; ToolRunner.arg and .line skip a falsy value).
Falsy(x) == x = Undefined \/ x = <<>>

IsWhite(c) == c \in {" ", "\n"}

RECURSIVE TrimStart(_)
TrimStart(s) == IF s # <<>> /\ IsWhite(Head(s)) THEN TrimStart(Tail(s)) ELSE s

RECURSIVE TrimEnd(_)
TrimEnd(s) ==
    IF s # <<>> /\ IsWhite(s[Len(s)]) THEN TrimEnd(SubSeq(s, 1, Len(s) - 1)) ELSE s

\* String.prototype.trim
Trim(s) == TrimEnd(TrimStart(s))

\* String.prototype.indexOf for a one-letter needle, 0-based, -1 when absent.
IndexOf(s, letter) ==
    IF \E i \in 1..Len(s) : s[i] = letter
    THEN (CHOOSE i \in 1..Len(s) : s[i] = letter /\ \A j \in 1..(i - 1) : s[j] # letter) - 1
    ELSE -1

\* String.prototype.substr(start, length) and substr(start), 0-based.
Substr(s, start, length) == SubSeq(s, start + 1, IF start + length > Len(s) THEN Len(s) ELSE start + length)

SubstrFrom(s, start) == SubSeq(s, start + 1, Len(s))

\* String.prototype.split for a separator set: the pieces, empty ones included.
RECURSIVE SplitOn(_, _)
SplitOn(s, seps) ==
    IF \E i \in 1..Len(s) : s[i] \in seps
    THEN LET i == CHOOSE k \in 1..Len(s) : s[k] \in seps /\ \A j \in 1..(k - 1) : s[j] \notin seps
         IN  <<SubSeq(s, 1, i - 1)>> \o SplitOn(SubSeq(s, i + 1, Len(s)), seps)
    ELSE <<s>>

\* Array.prototype.join
RECURSIVE JoinWith(_, _)
JoinWith(pieces, sep) ==
    IF pieces = <<>> THEN <<>>
    ELSE IF Len(pieces) = 1 THEN pieces[1]
    ELSE pieces[1] \o <<sep>> \o JoinWith(Tail(pieces), sep)

RECURSIVE SelectNonEmpty(_)
SelectNonEmpty(pieces) ==
    IF pieces = <<>> THEN <<>>
    ELSE IF pieces[1] = <<>> THEN SelectNonEmpty(Tail(pieces))
    ELSE <<pieces[1]>> \o SelectNonEmpty(Tail(pieces))

\* ------------------------------------------------------------------ paths

Platforms == {"win32", "darwin", "linux"}

\* path.sep, and the letters path.join treats as separators on each platform.
PathSep(plat) == IF plat = "win32" THEN "\\" ELSE "/"

PathSeps(plat) == IF plat = "win32" THEN {"\\", "/"} ELSE {"/"}

\* path.normalize on the segments of a path: "." and empty segments go, ".."
\* removes the segment before it (and is kept in front of a relative path).
RECURSIVE NormalizeSegments(_, _, _)
NormalizeSegments(segs, acc, absolute) ==
    IF segs = <<>> THEN acc
    ELSE LET seg == Head(segs)
             rest == Tail(segs)
         IN  IF seg = <<>> \/ seg = S(".") THEN NormalizeSegments(rest, acc, absolute)
             ELSE IF seg = S("..")
             THEN IF acc # <<>> /\ acc[Len(acc)] # S("..")
                  THEN NormalizeSegments(rest, SubSeq(acc, 1, Len(acc) - 1), absolute)
                  ELSE IF absolute THEN NormalizeSegments(rest, acc, absolute)
                  ELSE NormalizeSegments(rest, Append(acc, seg), absolute)
             ELSE NormalizeSegments(rest, Append(acc, seg), absolute)

PathNormalize(plat, p) ==
    LET absolute == p # <<>> /\ p[1] \in PathSeps(plat)
        segs == NormalizeSegments(SplitOn(p, PathSeps(plat)), <<>>, absolute)
        body == JoinWith(segs, PathSep(plat))
    IN  IF absolute THEN <<PathSep(plat)>> \o body
        ELSE IF body = <<>> THEN S(".") ELSE body

\* path.join: the non-empty parts joined by the separator, then normalized.
PathJoin(plat, parts) ==
    LET kept == SelectNonEmpty(parts)
    IN  IF kept = <<>> THEN S(".") ELSE PathNormalize(plat, JoinWith(kept, PathSep(plat)))

\* ---------------------------------------------------- task-lib ToolRunner

\* ToolRunner.arg: a falsy value adds nothing, a string is added trimmed.
Arg(args, val) == IF Falsy(val) THEN args ELSE Append(args, Trim(val))

\* ToolRunner._argStringToArray: the string cut at the spaces outside double
\* quotes, the quotes dropped (the alphabet holds no backslash).
RECURSIVE ArgScan(_, _, _, _, _)
ArgScan(s, args, arg, inQuotes, lastCharWasSpace) ==
    IF s = <<>> THEN (IF lastCharWasSpace THEN args ELSE Append(args, Trim(arg)))
    ELSE LET c == Head(s)
             rest == Tail(s)
         IN  IF c = " " /\ ~inQuotes
             THEN ArgScan(rest, IF lastCharWasSpace THEN args ELSE Append(args, arg),
                          IF lastCharWasSpace THEN arg ELSE <<>>, inQuotes, TRUE)
             ELSE IF c = "\"" THEN ArgScan(rest, args, arg, ~inQuotes, FALSE)
             ELSE ArgScan(rest, args, Append(arg, c), inQuotes, FALSE)

ArgStringToArray(argString) == ArgScan(argString, <<>>, <<>>, FALSE, TRUE)

\* ToolRunner.line: a falsy value adds nothing, a string adds its arguments.
Line(args, val) == IF Falsy(val) THEN args ELSE args \o ArgStringToArray(val)

\* getBoolInput: the input's text, upper-cased, is "TRUE".
GetBoolInput(raw) == raw \in {S("true"), S("TRUE")}

\* ------------------------------------------------ the files not under src/

\* unity-build-target.enum: a numeric enum, name -> value and value -> name.
UnityBuildTargetNames == <<"Android", "WindowsStoreApps", "iOS">>

UnityBuildTargetValue(name) ==
    IF \E i \in 1..Len(UnityBuildTargetNames) : name = S(UnityBuildTargetNames[i])
    THEN (CHOOSE i \in 1..Len(UnityBuildTargetNames) : name = S(UnityBuildTargetNames[i])) - 1
    ELSE -1

UnityBuildTargetName(value) ==
    IF value + 1 \in 1..Len(UnityBuildTargetNames) THEN S(UnityBuildTargetNames[value + 1])
    ELSE Undefined

WindowsStoreApps == UnityBuildTargetValue(S("WindowsStoreApps"))

\* UnityBuildScriptHelper.getBuildOutputDirectory: the target's output folder.
GetBuildOutputDirectory(plat, buildTarget) ==
    PathJoin(plat, <<S("Builds"), Template(UnityBuildTargetName(buildTarget))>>)

\* UnityBuildScriptHelper.getUnityEditorBuildScriptContent: the script encodes
\* the configuration it is generated from.
GetUnityEditorBuildScriptContent(config) == config

\* ------------------------------------------------------------------ state

VARIABLES
    platform,                 \* process.platform
    fs,                       \* the file system: output directory, Assets/Editor, the script, the editor
    inputs,                   \* the task's inputs, variables and environment, each drawn when
                              \* the run reaches the part of the program that can read it
    pc,                       \* the statement run() executes next
    unityBuildConfiguration,  \* line 13
    unityEditorsPath,         \* line 14
    unityEditorDirectory,     \* line 17
    fullBuildOutputPath,      \* line 27
    unityCmd,                 \* line 43: the ToolRunner, its tool and its arguments
    cwd,                      \* the working directory (tl.cd)
    variables,                \* the pipeline variables set by tl.setVariable
    err,                      \* the error thrown inside the try block, until it is caught
    result,                   \* the task result set by tl.setResult
    exitCode,                 \* the editor process's exit code, once execSync has returned
    trace,                    \* the statements executed so far, in order
    outputDirectoryAtStart    \* the output directory as run() found it

vars == <<platform, fs, inputs, pc, unityBuildConfiguration, unityEditorsPath,
          unityEditorDirectory, fullBuildOutputPath, unityCmd, cwd, variables, err,
          result, exitCode, trace, outputDirectoryAtStart>>

\* An input, variable or environment value not drawn yet.
Unread == <<"<unread>">>

\* No error pending.
NoError == <<>>

NoConfiguration ==
    [outputFileName |-> Undefined, developmentBuild |-> FALSE, buildScenes |-> Undefined,
     buildTarget |-> -1, projectPath |-> Undefined, unityVersion |-> Undefined]

NoResult == [status |-> "None", message |-> Undefined]

NoExitCode == -1

InputNames ==
    {"outputFileName", "developmentBuild", "buildScenes", "buildTarget", "unityProjectPath",
     "ProjectVersion.txt", "unityEditorsPathMode", "UNITYHUB_EDITORS_FOLDER_LOCATION",
     "customUnityEditorsPath", "Build.Repository.Clean", "Build.Repository.LocalPath",
     "commandLineArgumentsMode", "noPackageManager", "acceptApiUpdate", "noGraphics",
     "logFileName", "customCommandLineArguments"}

\* An absolute path of the platform from its segments.
AbsolutePath(plat, segs) ==
    IF plat = "win32" THEN PathJoin(plat, <<S("C:")>> \o segs)
    ELSE PathJoin(plat, <<S("/")>> \o segs)

\* The values the environment may hold.
RepositoryLocalPaths(plat) == {Undefined, AbsolutePath(plat, <<S("repo")>>)}

ProjectPaths(plat) == {AbsolutePath(plat, <<S("repo"), S("proj")>>)}

EditorsFolders(plat) == {Undefined, <<>>, AbsolutePath(plat, <<S("editors")>>)}

BuildTargetInputs == {Undefined} \cup {S(UnityBuildTargetNames[i]) : i \in 1..Len(UnityBuildTargetNames)}

EditorsPathModes == {Undefined, S("unityHub"), S("environmentVariable"), S("custom")}

ArgumentsModes == {Undefined, S("default"), S("custom")}

BoolInputs == {Undefined, S("true")}

CleanValues == {Undefined, S("true"), S("false")}

LogFileNames == {Undefined, S("build.log"), <<"build.log", " ">>}

CustomArguments ==
    {Undefined,
     <<"-quit", " ", "-batchmode">>,
     <<"-nographics", " ", " ", "-logfile", " ", "\"", "my", " ", "log", "\"">>}

\* ProjectVersion.txt: absent (Undefined), or its text.
SampleVersionFiles ==
    {Undefined,
     <<"m_EditorVersion", ":", " ", "2021.3.1f1", "\n", "m_EditorVersionWithRevision", ":",
       " ", "2021.3.1f1", " ", "(rev)", "\n">>,
     <<"m_EditorVersion", ":", " ", "\n">>,
     <<"m_EditorVersion", " ", "2021.3.1f1">>}

OldFiles == 1..MaxOldFiles

OutputDirectories ==
    {[kind |-> "absent", files |-> {}], [kind |-> "file", files |-> {}]}
        \cup {[kind |-> "dir", files |-> f] : f \in SUBSET OldFiles}

NoScript == [written |-> FALSE, path |-> Undefined, content |-> NoConfiguration]

Init ==
    /\ platform \in Platforms
    /\ fs \in [outputDirectory : OutputDirectories, editorDirectory : BOOLEAN,
               assetsEditor : BOOLEAN, script : {NoScript}]
    /\ inputs = [n \in InputNames |-> Unread]
    /\ pc = "getBuildConfiguration"
    /\ unityBuildConfiguration = NoConfiguration
    /\ unityEditorsPath = Undefined
    /\ unityEditorDirectory = Undefined
    /\ fullBuildOutputPath = Undefined
    /\ unityCmd = [tool |-> Undefined, args |-> <<>>]
    /\ cwd = Undefined
    /\ variables = [buildOutputPath |-> Undefined, editorLogFilePath |-> Undefined]
    /\ err = NoError
    /\ result = NoResult
    /\ exitCode = NoExitCode
    /\ trace = <<>>
    /\ outputDirectoryAtStart = fs.outputDirectory

\* A statement that throws: control goes to the catch block with the error.
Throw(message) ==
    /\ err' = message
    /\ pc' = "catch"

\* A statement that completes: control goes on.
Goto(label) ==
    /\ err' = err
    /\ pc' = label

Step(label) ==
    /\ pc = label
    /\ trace' = Append(trace, label)

\* tl.getInput(name, true): a required input that is missing throws.
InputRequired(name) == <<"Input required: ", name>>

\* ------------------------------------------------ getBuildConfiguration

\* The inputs handed on to the generated script alone.
OutputFileNames == {S("drop")}

DevelopmentBuilds == {S("true")}

BuildScenes == {Undefined}

RevisionMarker == "m_EditorVersionWithRevision"

\* Mutation of ParseUnityVersion: the text before the marker is not trimmed.
ParseUnityVersionUntrimmed(content) ==
    IF content = Undefined
    THEN [ok |-> FALSE, version |-> Undefined, message |-> S("ENOENT: no such file or directory")]
    ELSE LET pieces == SplitOn(content, {":"})
         IN  IF Len(pieces) < 2
             THEN [ok |-> FALSE, version |-> Undefined,
                   message |-> S("Cannot read property 'trim' of undefined")]
             ELSE LET unityVersion == Trim(pieces[2])
                      revisionVersionIndex == IndexOf(unityVersion, RevisionMarker)
                      dropped == IF revisionVersionIndex > -1
                                 THEN Substr(unityVersion, 0, revisionVersionIndex)
                                 ELSE unityVersion
                  IN  IF dropped = <<>>
                      THEN [ok |-> FALSE, version |-> dropped,
                            message |-> S("Failed to get project version from ProjectVersion.txt file.")]
                      ELSE [ok |-> TRUE, version |-> dropped, message |-> NoError]

\* Lines 108-123: the editor version read from the text of ProjectVersion.txt
\* (Undefined: the file cannot be read), or the error thrown.
ParseUnityVersion(content) ==
    IF content = Undefined
    THEN [ok |-> FALSE, version |-> Undefined, message |-> S("ENOENT: no such file or directory")]
    ELSE LET pieces == SplitOn(content, {":"})
         IN  IF Len(pieces) < 2
             THEN [ok |-> FALSE, version |-> Undefined,
                   message |-> S("Cannot read property 'trim' of undefined")]
             ELSE LET unityVersion == Trim(pieces[2])
                      revisionVersionIndex == IndexOf(unityVersion, RevisionMarker)
                      dropped == IF revisionVersionIndex > -1
                                 THEN Trim(Substr(unityVersion, 0, revisionVersionIndex))
                                 ELSE unityVersion
                  IN  IF dropped = <<>>
                      THEN [ok |-> FALSE, version |-> dropped,
                            message |-> S("Failed to get project version from ProjectVersion.txt file.")]
                      ELSE [ok |-> TRUE, version |-> dropped, message |-> NoError]

\* Mutation of UwpOnNonWindows: the host platform is not looked at.
UwpOnAnyHost(plat, buildTarget) == buildTarget = WindowsStoreApps

\* Line 125: the target cannot be built on this host.
UwpOnNonWindows(plat, buildTarget) == plat # "win32" /\ buildTarget = WindowsStoreApps

\* Lines 13, 100-130; versionFiles is what ProjectVersion.txt may hold.
GetBuildConfiguration(versionFiles) ==
    /\ Step("getBuildConfiguration")
    /\ \E outputFileName \in OutputFileNames, developmentBuild \in DevelopmentBuilds,
          buildScenes \in BuildScenes, buildTarget \in BuildTargetInputs,
          projectPath \in ProjectPaths(platform), content \in versionFiles :
          LET parsed == ParseUnityVersion(content)
              target == UnityBuildTargetValue(buildTarget)
              read == [inputs EXCEPT !["outputFileName"] = outputFileName,
                                     !["developmentBuild"] = developmentBuild,
                                     !["buildScenes"] = buildScenes,
                                     !["buildTarget"] = buildTarget]
              readAll == [read EXCEPT !["unityProjectPath"] = projectPath,
                                      !["ProjectVersion.txt"] = content]
          IN  IF Falsy(buildTarget)
              THEN /\ inputs' = read
                   /\ Throw(InputRequired("buildTarget"))
                   /\ UNCHANGED unityBuildConfiguration
              ELSE /\ inputs' = readAll
                   /\ IF ~parsed.ok
                      THEN Throw(parsed.message) /\ UNCHANGED unityBuildConfiguration
                      ELSE IF UwpOnNonWindows(platform, target)
                      THEN /\ Throw(S("Cannot build an UWP project on a Mac."))
                           /\ UNCHANGED unityBuildConfiguration
                      ELSE /\ unityBuildConfiguration' =
                                [outputFileName |-> outputFileName,
                                 developmentBuild |-> GetBoolInput(developmentBuild),
                                 buildScenes |-> buildScenes,
                                 buildTarget |-> target,
                                 projectPath |-> projectPath,
                                 unityVersion |-> parsed.version]
                           /\ Goto("getUnityEditorsPath")
    /\ UNCHANGED <<platform, outputDirectoryAtStart, fs, unityEditorsPath,
                   unityEditorDirectory, fullBuildOutputPath,
                   unityCmd, cwd, variables, result, exitCode>>

\* --------------------------------------------------- getUnityEditorsPath

UnityHubPath(plat) ==
    IF plat = "win32"
    THEN PathJoin(plat, <<S("C:"), S("Program Files"), S("Unity"), S("Hub"), S("Editor")>>)
    ELSE PathJoin(plat, <<S("/"), S("Applications"), S("Unity"), S("Hub"), S("Editor")>>)

\* Mutation of ResolveEditorsPath: the environment variable is returned unchecked.
ResolveEditorsPathUnchecked(plat, editorsPathMode, environmentVariablePath, customPath) ==
    IF Falsy(editorsPathMode)
    THEN [ok |-> FALSE, path |-> Undefined, message |-> InputRequired("unityEditorsPathMode")]
    ELSE IF editorsPathMode = S("unityHub")
    THEN [ok |-> TRUE, path |-> UnityHubPath(plat), message |-> NoError]
    ELSE IF editorsPathMode = S("environmentVariable")
    THEN IF FALSE
         THEN [ok |-> FALSE, path |-> Undefined,
               message |-> S("Expected UNITYHUB_EDITORS_FOLDER_LOCATION environment variable to be set!")]
         ELSE [ok |-> TRUE, path |-> environmentVariablePath, message |-> NoError]
    ELSE IF Falsy(customPath)
         THEN [ok |-> FALSE, path |-> Undefined,
               message |-> S("Expected custom editors folder location to be set. Please the task configuration.")]
         ELSE [ok |-> TRUE, path |-> customPath, message |-> NoError]

\* Lines 132-155: the editors folder for the mode, or the error thrown.
\* environmentVariablePath and customPath are read only in their branch.
ResolveEditorsPath(plat, editorsPathMode, environmentVariablePath, customPath) ==
    IF Falsy(editorsPathMode)
    THEN [ok |-> FALSE, path |-> Undefined, message |-> InputRequired("unityEditorsPathMode")]
    ELSE IF editorsPathMode = S("unityHub")
    THEN [ok |-> TRUE, path |-> UnityHubPath(plat), message |-> NoError]
    ELSE IF editorsPathMode = S("environmentVariable")
    THEN IF Falsy(environmentVariablePath)
         THEN [ok |-> FALSE, path |-> Undefined,
               message |-> S("Expected UNITYHUB_EDITORS_FOLDER_LOCATION environment variable to be set!")]
         ELSE [ok |-> TRUE, path |-> environmentVariablePath, message |-> NoError]
    ELSE IF Falsy(customPath)
         THEN [ok |-> FALSE, path |-> Undefined,
               message |-> S("Expected custom editors folder location to be set. Please the task configuration.")]
         ELSE [ok |-> TRUE, path |-> customPath, message |-> NoError]

\* Lines 14, 132-155.
GetUnityEditorsPath ==
    /\ Step("getUnityEditorsPath")
    /\ \E editorsPathMode \in EditorsPathModes, environmentVariablePath \in EditorsFolders(platform),
          customPath \in EditorsFolders(platform) :
          LET resolved == ResolveEditorsPath(platform, editorsPathMode, environmentVariablePath, customPath)
              readMode == [inputs EXCEPT !["unityEditorsPathMode"] = editorsPathMode]
          IN  /\ inputs' =
                    IF Falsy(editorsPathMode) \/ editorsPathMode = S("unityHub") THEN readMode
                    ELSE IF editorsPathMode = S("environmentVariable")
                    THEN [readMode EXCEPT !["UNITYHUB_EDITORS_FOLDER_LOCATION"] = environmentVariablePath]
                    ELSE [readMode EXCEPT !["customUnityEditorsPath"] = customPath]
              /\ IF resolved.ok
                 THEN unityEditorsPath' = resolved.path /\ Goto("checkEditorDirectory")
                 ELSE UNCHANGED unityEditorsPath /\ Throw(resolved.message)
    /\ UNCHANGED <<platform, outputDirectoryAtStart, fs, unityBuildConfiguration,
                   unityEditorDirectory, fullBuildOutputPath,
                   unityCmd, cwd, variables, result, exitCode>>

\* Mutation of CheckEditorDirectory: the directory is computed and not checked.
CheckEditorDirectoryUnchecked ==
    /\ Step("checkEditorDirectory")
    /\ LET directory ==
               IF platform = "win32"
               THEN PathJoin(platform, <<Template(unityEditorsPath),
                                         Template(unityBuildConfiguration.unityVersion), S("Editor")>>)
               ELSE PathJoin(platform, <<Template(unityEditorsPath),
                                         Template(unityBuildConfiguration.unityVersion)>>)
       IN  /\ unityEditorDirectory' = directory
           /\ IF TRUE
              THEN Goto("outputPath")
              ELSE Throw(<<"Not found Unity Editor Directory: ">> \o directory)
    /\ UNCHANGED <<platform, outputDirectoryAtStart, fs, inputs, unityBuildConfiguration,
                   unityEditorsPath,
                   fullBuildOutputPath, unityCmd, cwd, variables, result, exitCode>>

\* Lines 16-20: the editor directory of the project's version must exist.
CheckEditorDirectory ==
    /\ Step("checkEditorDirectory")
    /\ LET directory ==
               IF platform = "win32"
               THEN PathJoin(platform, <<Template(unityEditorsPath),
                                         Template(unityBuildConfiguration.unityVersion), S("Editor")>>)
               ELSE PathJoin(platform, <<Template(unityEditorsPath),
                                         Template(unityBuildConfiguration.unityVersion)>>)
       IN  /\ unityEditorDirectory' = directory
           /\ IF fs.editorDirectory
              THEN Goto("outputPath")
              ELSE Throw(<<"Not found Unity Editor Directory: ">> \o directory)
    /\ UNCHANGED <<platform, outputDirectoryAtStart, fs, inputs, unityBuildConfiguration,
                   unityEditorsPath,
                   fullBuildOutputPath, unityCmd, cwd, variables, result, exitCode>>

\* ----------------------------------------------- the output directory

\* Lines 24-27: the variables read and the output path computed.
OutputPath ==
    /\ Step("outputPath")
    /\ \E cleanBuild \in CleanValues, repositoryLocalPath \in RepositoryLocalPaths(platform) :
          inputs' = [inputs EXCEPT !["Build.Repository.Clean"] = cleanBuild,
                                   !["Build.Repository.LocalPath"] = repositoryLocalPath]
    /\ fullBuildOutputPath' =
           PathJoin(platform, <<Template(unityBuildConfiguration.projectPath),
                                Template(GetBuildOutputDirectory(platform, unityBuildConfiguration.buildTarget))>>)
    /\ Goto("removeOutput")
    /\ UNCHANGED <<platform, outputDirectoryAtStart, fs, unityBuildConfiguration,
                   unityEditorsPath, unityEditorDirectory,
                   unityCmd, cwd, variables, result, exitCode>>

\* Mutation of CleanBuild: everything but 'false' asks for a clean build.
CleanBuildUnlessFalse(cleanBuild) == cleanBuild # S("false")

\* Line 29: the output directory is deleted first when the build is a clean one.
CleanBuild(cleanBuild) == cleanBuild = S("true")

\* Lines 29-31: fs.removeSync deletes what lies at the path, a missing path
\* included; when it fails it throws, and part of the content may be gone.
RemoveOutput ==
    /\ Step("removeOutput")
    /\ IF CleanBuild(inputs["Build.Repository.Clean"])
       THEN \E removed \in BOOLEAN, left \in SUBSET fs.outputDirectory.files :
               IF removed \/ fs.outputDirectory.kind = "absent"
               THEN /\ fs' = [fs EXCEPT !.outputDirectory = [kind |-> "absent", files |-> {}]]
                    /\ Goto("mkdirOutput")
               ELSE /\ fs' = [fs EXCEPT !.outputDirectory.files = left]
                    /\ Throw(S("EPERM: operation not permitted, unlink"))
       ELSE UNCHANGED fs /\ Goto("mkdirOutput")
    /\ UNCHANGED <<platform, outputDirectoryAtStart, inputs, unityBuildConfiguration,
                   unityEditorsPath, unityEditorDirectory,
                   fullBuildOutputPath, unityCmd, cwd, variables, result, exitCode>>

\* Line 33: tl.mkdirP keeps a directory that exists, creates a missing one,
\* and throws when a file is in the way or the directory cannot be created.
MkdirOutput ==
    /\ Step("mkdirOutput")
    /\ IF fs.outputDirectory.kind = "dir"
       THEN UNCHANGED fs /\ Goto("checkOutput")
       ELSE IF fs.outputDirectory.kind = "file"
       THEN UNCHANGED fs /\ Throw(S("Unable to create directory: a file is in the way"))
       ELSE \E created \in BOOLEAN :
               IF created
               THEN /\ fs' = [fs EXCEPT !.outputDirectory = [kind |-> "dir", files |-> {}]]
                    /\ Goto("checkOutput")
               ELSE UNCHANGED fs /\ Throw(S("EACCES: permission denied, mkdir"))
    /\ UNCHANGED <<platform, outputDirectoryAtStart, inputs, unityBuildConfiguration,
                   unityEditorsPath, unityEditorDirectory,
                   fullBuildOutputPath, unityCmd, cwd, variables, result, exitCode>>

\* Line 34: tl.checkPath throws when nothing is at the path.
CheckOutput ==
    /\ Step("checkOutput")
    /\ IF fs.outputDirectory.kind = "absent"
       THEN Throw(<<"Not found Build Output Directory: ">> \o fullBuildOutputPath)
       ELSE Goto("setBuildOutputPath")
    /\ UNCHANGED <<platform, outputDirectoryAtStart, fs, inputs, unityBuildConfiguration,
                   unityEditorsPath,
                   unityEditorDirectory, fullBuildOutputPath, unityCmd, cwd, variables, result,
                   exitCode>>

\* Line 35: the output path after the repository root, as a pipeline variable;
\* .length of an unset Build.Repository.LocalPath is a TypeError.
SetBuildOutputPath ==
    /\ Step("setBuildOutputPath")
    /\ LET repositoryLocalPath == inputs["Build.Repository.LocalPath"]
       IN  IF repositoryLocalPath = Undefined
           THEN UNCHANGED variables /\ Throw(S("Cannot read property 'length' of undefined"))
           ELSE /\ variables' = [variables EXCEPT !.buildOutputPath =
                                    SubstrFrom(fullBuildOutputPath, Len(repositoryLocalPath) + 1)]
                /\ Goto("createCommand")
    /\ UNCHANGED <<platform, outputDirectoryAtStart, fs, inputs, unityBuildConfiguration,
                   unityEditorsPath,
                   unityEditorDirectory, fullBuildOutputPath, unityCmd, cwd, result, exitCode>>

\* ------------------------------------------------------------ the command

\* Lines 44-46: the arguments every command starts with.
MandatoryArguments(config) ==
    Arg(Arg(Arg(Arg(Arg(<<>>, S("-batchmode")),
                    S("-buildTarget")), UnityBuildTargetName(config.buildTarget)),
            S("-projectPath")), config.projectPath)

\* Lines 41-46.
CreateCommand ==
    /\ Step("createCommand")
    /\ LET unityExecutablePath ==
               IF platform = "win32"
               THEN PathJoin(platform, <<Template(unityEditorDirectory), S("Unity.exe")>>)
               ELSE PathJoin(platform, <<Template(unityEditorDirectory), S("Unity.app"),
                                         S("Contents"), S("MacOS"), S("Unity")>>)
       IN  unityCmd' = [tool |-> unityExecutablePath,
                        args |-> MandatoryArguments(unityBuildConfiguration)]
    /\ Goto("argumentsMode")
    /\ UNCHANGED <<platform, outputDirectoryAtStart, fs, inputs, unityBuildConfiguration,
                   unityEditorsPath,
                   unityEditorDirectory, fullBuildOutputPath, cwd, variables, result, exitCode>>

\* Line 48: the default argument set is used for the mode 'default' alone.
DefaultMode(mode) == mode = S("default")

\* Lines 48, 82: the required input commandLineArgumentsMode selects the branch.
\* The inputs of the default branch are drawn here whatever the mode is (the
\* custom branch never reads them), the custom arguments once the mode is not
\* missing and not 'default'.
ArgumentsMode ==
    /\ Step("argumentsMode")
    /\ \E mode \in ArgumentsModes, noPackageManager \in BoolInputs, acceptApiUpdate \in BoolInputs,
          noGraphics \in BoolInputs, logFileName \in LogFileNames,
          customCommandLineArguments \in CustomArguments :
          /\ inputs' = [inputs EXCEPT !["commandLineArgumentsMode"] = mode,
                                      !["noPackageManager"] = noPackageManager,
                                      !["acceptApiUpdate"] = acceptApiUpdate,
                                      !["noGraphics"] = noGraphics,
                                      !["logFileName"] = logFileName,
                                      !["customCommandLineArguments"] =
                                          IF Falsy(mode) \/ DefaultMode(mode) THEN Unread
                                          ELSE customCommandLineArguments]
          /\ IF Falsy(mode) THEN Throw(InputRequired("commandLineArgumentsMode"))
             ELSE IF DefaultMode(mode) THEN Goto("defaultFlags")
             ELSE Goto("customLine")
    /\ UNCHANGED <<platform, outputDirectoryAtStart, fs, unityBuildConfiguration,
                   unityEditorsPath, unityEditorDirectory,
                   fullBuildOutputPath, unityCmd, cwd, variables, result, exitCode>>

\* Lines 49-59: the optional flags of the default mode.
DefaultFlags ==
    /\ Step("defaultFlags")
    /\ LET a1 == IF GetBoolInput(inputs["noPackageManager"]) THEN Arg(unityCmd.args, S("-noUpm"))
                 ELSE unityCmd.args
           a2 == IF GetBoolInput(inputs["acceptApiUpdate"]) THEN Arg(a1, S("-accept-apiupdate"))
                 ELSE a1
           a3 == IF GetBoolInput(inputs["noGraphics"]) THEN Arg(a2, S("-nographics")) ELSE a2
       IN  unityCmd' = [unityCmd EXCEPT !.args = a3]
    /\ Goto("mkdirAssetsEditor")
    /\ UNCHANGED <<platform, outputDirectoryAtStart, fs, inputs, unityBuildConfiguration,
                   unityEditorsPath, unityEditorDirectory,
                   fullBuildOutputPath, cwd, variables, result, exitCode>>

AssetsEditorPath(plat, config) ==
    PathJoin(plat, <<Template(config.projectPath), S("Assets"), S("Editor")>>)

\* Lines 65-67: Assets/Editor is created when missing, and entered.
MkdirAssetsEditor ==
    /\ Step("mkdirAssetsEditor")
    /\ \E created \in BOOLEAN :
          IF fs.assetsEditor \/ created
          THEN /\ fs' = [fs EXCEPT !.assetsEditor = TRUE]
               /\ cwd' = AssetsEditorPath(platform, unityBuildConfiguration)
               /\ Goto("writeScript")
          ELSE UNCHANGED <<fs, cwd>> /\ Throw(S("EACCES: permission denied, mkdir"))
    /\ UNCHANGED <<platform, outputDirectoryAtStart, inputs, unityBuildConfiguration,
                   unityEditorsPath, unityEditorDirectory,
                   fullBuildOutputPath, unityCmd, variables, result, exitCode>>

\* Lines 68-69: the generated script is written into the working directory,
\* and the project directory entered.
WriteScript ==
    /\ Step("writeScript")
    /\ \E written \in BOOLEAN :
          IF written
          THEN /\ fs' = [fs EXCEPT !.script =
                            [written |-> TRUE,
                             path |-> PathJoin(platform, <<cwd, S("AzureDevOps.cs")>>),
                             content |-> GetUnityEditorBuildScriptContent(unityBuildConfiguration)]]
               /\ cwd' = unityBuildConfiguration.projectPath
               /\ Goto("executeMethod")
          ELSE UNCHANGED <<fs, cwd>> /\ Throw(S("EACCES: permission denied, open"))
    /\ UNCHANGED <<platform, outputDirectoryAtStart, inputs, unityBuildConfiguration,
                   unityEditorsPath, unityEditorDirectory,
                   fullBuildOutputPath, unityCmd, variables, result, exitCode>>

\* Lines 70-71.
ExecuteMethod ==
    /\ Step("executeMethod")
    /\ unityCmd' = [unityCmd EXCEPT !.args =
                       Arg(Arg(unityCmd.args, S("-executeMethod")), S("AzureDevOps.PerformBuild"))]
    /\ Goto("logFile")
    /\ UNCHANGED <<platform, outputDirectoryAtStart, fs, inputs, unityBuildConfiguration,
                   unityEditorsPath,
                   unityEditorDirectory, fullBuildOutputPath, cwd, variables, result, exitCode>>

\* Mutation of LogFilePath: the name is not joined to the repository root.
LogFilePathUnjoined(plat, repositoryLocalPath, logFileName) ==
    PathJoin(plat, <<logFileName>>)

\* Line 76: where the editor log goes.
LogFilePath(plat, repositoryLocalPath, logFileName) ==
    PathJoin(plat, <<repositoryLocalPath, logFileName>>)

\* Lines 74-80: the log file of the default mode.
LogFile ==
    /\ Step("logFile")
    /\ LET logFileName == inputs["logFileName"]
           logFilePath == LogFilePath(platform, inputs["Build.Repository.LocalPath"], logFileName)
       IN  IF ~Falsy(logFileName)
           THEN /\ unityCmd' = [unityCmd EXCEPT !.args =
                                   Arg(Arg(unityCmd.args, S("-logfile")), logFilePath)]
                /\ variables' = [variables EXCEPT !.editorLogFilePath = logFilePath]
           ELSE UNCHANGED <<unityCmd, variables>>
    /\ Goto("execSync")
    /\ UNCHANGED <<platform, outputDirectoryAtStart, fs, inputs, unityBuildConfiguration,
                   unityEditorsPath, unityEditorDirectory,
                   fullBuildOutputPath, cwd, result, exitCode>>

\* Mutation of CustomLine: the custom branch honours the noGraphics input too.
CustomLineAfterFlags ==
    /\ Step("customLine")
    /\ unityCmd' = [unityCmd EXCEPT !.args =
                       Line(IF GetBoolInput(inputs["noGraphics"])
                            THEN Arg(unityCmd.args, S("-nographics")) ELSE unityCmd.args,
                            inputs["customCommandLineArguments"])]
    /\ Goto("execSync")
    /\ UNCHANGED <<platform, outputDirectoryAtStart, fs, inputs, unityBuildConfiguration,
                   unityEditorsPath, unityEditorDirectory,
                   fullBuildOutputPath, cwd, variables, result, exitCode>>

\* Lines 82-86: the custom arguments follow the mandatory ones.
CustomLine ==
    /\ Step("customLine")
    /\ unityCmd' = [unityCmd EXCEPT !.args =
                       Line(unityCmd.args, inputs["customCommandLineArguments"])]
    /\ Goto("execSync")
    /\ UNCHANGED <<platform, outputDirectoryAtStart, fs, inputs, unityBuildConfiguration,
                   unityEditorsPath, unityEditorDirectory,
                   fullBuildOutputPath, cwd, variables, result, exitCode>>

\* ----------------------------------------------------------- the process

\* What the editor process may exit with, and whether launching it may throw.
ExitCodes == {0, 1}

\* Lines 92-94: the editor runs to its exit; its exit code is not looked at
\* ("TODO: Check result"), and run() returns without setting a result.
ExecSync ==
    /\ Step("execSync")
    /\ \E thrown \in BOOLEAN, code \in ExitCodes :
          IF thrown
          THEN UNCHANGED exitCode /\ Throw(S("spawnSync failed"))
          ELSE exitCode' = code /\ Goto("done")
    /\ UNCHANGED <<platform, outputDirectoryAtStart, fs, inputs, unityBuildConfiguration,
                   unityEditorsPath,
                   unityEditorDirectory, fullBuildOutputPath, unityCmd, cwd, variables, result>>

\* Lines 157-159.
SetResultFailed(msg) == result' = [status |-> "Failed", message |-> msg]

\* Mutation of Catch: the handler reports a message of its own, not the error's.
CatchGenericMessage ==
    /\ Step("catch")
    /\ SetResultFailed(S("The Unity build failed."))
    /\ err' = err
    /\ pc' = "done"
    /\ UNCHANGED <<platform, outputDirectoryAtStart, fs, inputs, unityBuildConfiguration,
                   unityEditorsPath,
                   unityEditorDirectory, fullBuildOutputPath, unityCmd, cwd, variables, exitCode>>

\* Lines 95-97: the one handler of every error of the try block.
Catch ==
    /\ Step("catch")
    /\ SetResultFailed(err)
    /\ err' = err
    /\ pc' = "done"
    /\ UNCHANGED <<platform, outputDirectoryAtStart, fs, inputs, unityBuildConfiguration,
                   unityEditorsPath,
                   unityEditorDirectory, fullBuildOutputPath, unityCmd, cwd, variables, exitCode>>

Next ==
    \/ GetBuildConfiguration(SampleVersionFiles)
    \/ GetUnityEditorsPath
    \/ CheckEditorDirectory
    \/ OutputPath
    \/ RemoveOutput
    \/ MkdirOutput
    \/ CheckOutput
    \/ SetBuildOutputPath
    \/ CreateCommand
    \/ ArgumentsMode
    \/ DefaultFlags
    \/ MkdirAssetsEditor
    \/ WriteScript
    \/ ExecuteMethod
    \/ LogFile
    \/ CustomLine
    \/ ExecSync
    \/ Catch

Spec == Init /\ [][Next]_vars

\* ------------------------------------------- the version parser on its own

VersionLetters == {":", " ", "\n", "2021.3.1f1", RevisionMarker}

RECURSIVE StringsUpTo(_, _)
StringsUpTo(letters, n) ==
    IF n = 0 THEN {<<>>}
    ELSE LET shorter == StringsUpTo(letters, n - 1)
         IN  shorter \cup {Append(t, c) : t \in shorter, c \in letters}

\* Every ProjectVersion.txt of at most MaxContentLen letters, and the missing file.
AllVersionFiles == {Undefined} \cup StringsUpTo(VersionLetters, MaxContentLen)

InitParse ==
    /\ Init
    /\ fs.outputDirectory.kind = "absent"
    /\ fs.editorDirectory
    /\ fs.assetsEditor

NextParse ==
    \/ GetBuildConfiguration(AllVersionFiles)
    \/ Catch

\* run() up to the return of getBuildConfiguration, over every version file.
SpecParse == InitParse /\ [][NextParse]_vars

\* ------------------------------------------------------------- properties

Executed(label) == \E i \in 1..Len(trace) : trace[i] = label

Times(label) == Cardinality({i \in 1..Len(trace) : trace[i] = label})

Position(label) == CHOOSE i \in 1..Len(trace) : trace[i] = label

\* The statements of the try block in program order, the catch block last.
ProgramOrder ==
    <<"getBuildConfiguration", "getUnityEditorsPath", "checkEditorDirectory", "outputPath",
      "removeOutput", "mkdirOutput", "checkOutput", "setBuildOutputPath", "createCommand",
      "argumentsMode", "defaultFlags", "mkdirAssetsEditor", "writeScript", "executeMethod",
      "logFile", "customLine", "execSync", "catch">>

RankOf ==
    [label \in {ProgramOrder[i] : i \in 1..Len(ProgramOrder)} \cup {"done"} |->
        IF label = "done" THEN Len(ProgramOrder) + 1
        ELSE CHOOSE i \in 1..Len(ProgramOrder) : ProgramOrder[i] = label]

Rank(label) == RankOf[label]

\* The stage of the spec's state machine a statement belongs to.
Stage(label) ==
    IF label \in {"getBuildConfiguration", "getUnityEditorsPath"} THEN "Configuring"
    ELSE IF label = "checkEditorDirectory" THEN "Validating"
    ELSE IF label \in {"outputPath", "removeOutput", "mkdirOutput", "checkOutput",
                       "setBuildOutputPath"} THEN "PreparingOutput"
    ELSE IF label \in {"createCommand", "argumentsMode", "defaultFlags", "mkdirAssetsEditor",
                       "writeScript", "executeMethod", "logFile", "customLine"}
    THEN "BuildingCommand"
    ELSE IF label = "execSync" THEN "Executing"
    ELSE "Terminal"

Stages == <<"Configuring", "Validating", "PreparingOutput", "BuildingCommand", "Executing", "Terminal">>

StageRankOf == [stage \in {Stages[i] : i \in 1..Len(Stages)} |->
                   CHOOSE i \in 1..Len(Stages) : Stages[i] = stage]

StageRank(stage) == StageRankOf[stage]

\* The statement that threw: the last one executed before the catch block.
Thrower ==
    IF err = NoError THEN "none"
    ELSE IF trace[Len(trace)] = "catch" THEN trace[Len(trace) - 1]
    ELSE trace[Len(trace)]

\* C1 (stage order, the part of the claim the code keeps): a run starts in
\* Configuring and every step stays in its stage, enters the next one, or
\* leaves for the terminal state.
C1_StageOrder ==
    [][\/ StageRank(Stage(pc')) = StageRank(Stage(pc))
       \/ StageRank(Stage(pc')) = StageRank(Stage(pc)) + 1
       \/ Stage(pc') = "Terminal"]_vars

\* C1: every run ends with a terminal result, Succeeded or Failed, and a run in
\* which nothing threw and the editor process was executed ends Succeeded.
C1_RunEndsWithTerminalResult ==
    pc = "done" =>
        /\ result.status \in {"Succeeded", "Failed"}
        /\ (err = NoError /\ exitCode # NoExitCode => result.status = "Succeeded")

\* C2: a run whose editor process exited with a non-zero code ends Failed.
C2_NonZeroExitEndsFailed ==
    (pc = "done" /\ exitCode # NoExitCode /\ exitCode # 0) => result.status = "Failed"

\* C3, the states: once a statement has thrown, the run goes to the catch block
\* and ends; the Failed result is set once, with the message of the error; the
\* statements ran in program order, each at most once, none after the one that
\* threw; the editor process was not launched unless it is execSync that threw.
C3_FailureState ==
    /\ \A i \in 1..(Len(trace) - 1) : Rank(trace[i]) < Rank(trace[i + 1])
    /\ trace # <<>> => Rank(trace[Len(trace)]) < Rank(pc)
    /\ err # NoError =>
          /\ pc \in {"catch", "done"}
          /\ pc = "catch" => ~Executed("catch") /\ result = NoResult
          /\ pc = "done" =>
                /\ Times("catch") = 1 /\ trace[Len(trace)] = "catch"
                /\ result = [status |-> "Failed", message |-> err]
          /\ Thrower # "execSync" => ~Executed("execSync") /\ exitCode = NoExitCode
          /\ exitCode = NoExitCode
    /\ result # NoResult => err # NoError /\ result.status = "Failed"

\* C3, the steps: the catch block changes neither the file system nor the
\* pipeline variables, and a result once set is final.
C3_FailureStep ==
    /\ pc = "catch" => fs' = fs /\ variables' = variables /\ pc' = "done"
    /\ result # NoResult => result' = result

\* C3: a failure thrown at any stage moves the run directly to Failed, with the
\* message of the error thrown, set once; no later stage runs, nothing is
\* retried, and what earlier stages did to the file system is left as it is.
C3_FailureGoesDirectlyToFailed == []C3_FailureState /\ [][C3_FailureStep]_vars

\* C3 witness: the run failed on line 35, after the output directory was created,
\* and ended Failed with the directory left in place.
C3_Witness ==
    /\ pc = "done"
    /\ Thrower = "setBuildOutputPath"
    /\ result = [status |-> "Failed", message |-> S("Cannot read property 'length' of undefined")]
    /\ outputDirectoryAtStart.kind = "absent"
    /\ fs.outputDirectory.kind = "dir"

\* ---- C4

\* C4 as claimed: with a supported target other than WindowsStoreApps
\* getBuildConfiguration succeeds on every host, and with WindowsStoreApps on a
\* host that is not win32 the run fails and launches no editor process.
C4_SucceedsForEveryOtherTarget ==
    LET buildTarget == inputs["buildTarget"]
    IN  /\ (Executed("getBuildConfiguration") /\ buildTarget \in {S("Android"), S("iOS")})
               => unityBuildConfiguration # NoConfiguration /\ Thrower # "getBuildConfiguration"
        /\ (buildTarget = S("WindowsStoreApps") /\ platform # "win32")
               => /\ unityBuildConfiguration = NoConfiguration
                  /\ ~Executed("execSync")
                  /\ pc = "done" => result.status = "Failed"

\* C4 as amended: with a supported target, getBuildConfiguration succeeds
\* exactly when ProjectVersion.txt yields a version and the target is not
\* WindowsStoreApps on a host other than win32: no other target is rejected on
\* any host, WindowsStoreApps is accepted on win32, and WindowsStoreApps on
\* another host always fails, the run ending Failed with no process launched.
C4_PlatformCheck ==
    LET buildTarget == inputs["buildTarget"]
        content == inputs["ProjectVersion.txt"]
        succeeded == unityBuildConfiguration # NoConfiguration /\ Thrower # "getBuildConfiguration"
    IN  /\ (Executed("getBuildConfiguration") /\ buildTarget # Undefined)
               => /\ succeeded <=> /\ ParseUnityVersion(content).ok
                                    /\ ~(buildTarget = S("WindowsStoreApps") /\ platform # "win32")
                  /\ succeeded => UnityBuildTargetName(unityBuildConfiguration.buildTarget) = buildTarget
        /\ (buildTarget = S("WindowsStoreApps") /\ platform # "win32")
               => /\ unityBuildConfiguration = NoConfiguration
                  /\ Thrower = "getBuildConfiguration"
                  /\ ~Executed("execSync") /\ exitCode = NoExitCode
                  /\ pc = "done" => result.status = "Failed"

\* C4 witness: WindowsStoreApps on a Mac, with a good version file, ended Failed.
C4_Witness ==
    /\ pc = "done"
    /\ platform = "darwin"
    /\ inputs["buildTarget"] = S("WindowsStoreApps")
    /\ ParseUnityVersion(inputs["ProjectVersion.txt"]).ok
    /\ result = [status |-> "Failed", message |-> S("Cannot build an UWP project on a Mac.")]

\* ---- C5

\* C5: with the mode environmentVariable and the variable unset or empty the run
\* fails and never reaches execSync; with a mode supplied, getUnityEditorsPath
\* fails exactly when the selected strategy yields no non-empty path, and
\* returns that path otherwise; the unityHub strategy never fails.
C5_EditorsPathResolution ==
    LET mode == inputs["unityEditorsPathMode"]
        environmentVariablePath == inputs["UNITYHUB_EDITORS_FOLDER_LOCATION"]
        customPath == inputs["customUnityEditorsPath"]
        noPath == \/ mode = S("environmentVariable") /\ environmentVariablePath \in {Undefined, <<>>}
                  \/ mode \notin {S("unityHub"), S("environmentVariable")}
                        /\ customPath \in {Undefined, <<>>}
    IN  /\ (mode = S("environmentVariable") /\ environmentVariablePath \in {Undefined, <<>>})
               => /\ pc \in {"catch", "done"}
                  /\ ~Executed("execSync") /\ exitCode = NoExitCode
                  /\ unityCmd.tool = Undefined
                  /\ pc = "done" => result.status = "Failed"
        /\ (Executed("getUnityEditorsPath") /\ mode # Undefined)
               => /\ Thrower = "getUnityEditorsPath" <=> noPath
                  /\ ~noPath => unityEditorsPath =
                        (IF mode = S("unityHub")
                         THEN (IF platform = "win32"
                               THEN <<"C:", "\\", "Program Files", "\\", "Unity", "\\", "Hub", "\\", "Editor">>
                               ELSE <<"/", "Applications", "/", "Unity", "/", "Hub", "/", "Editor">>)
                         ELSE IF mode = S("environmentVariable") THEN environmentVariablePath
                         ELSE customPath)
                  /\ noPath => unityEditorsPath = Undefined
        /\ mode = S("unityHub") => Thrower # "getUnityEditorsPath" /\ unityEditorsPath \notin {Undefined, <<>>}

\* C5 witness: the mode is environmentVariable, the variable is unset, and the
\* run has ended Failed without a command.
C5_Witness ==
    /\ pc = "done"
    /\ inputs["unityEditorsPathMode"] = S("environmentVariable")
    /\ inputs["UNITYHUB_EDITORS_FOLDER_LOCATION"] = Undefined
    /\ result.status = "Failed"
    /\ ~Executed("execSync")

\* ---- C6

DefaultModeStatements ==
    {"defaultFlags", "mkdirAssetsEditor", "writeScript", "executeMethod", "logFile"}

\* The custom argument strings of the model, as the arguments they stand for.
CustomArgumentsGiven ==
    LET custom == inputs["customCommandLineArguments"]
    IN  IF custom = <<"-quit", " ", "-batchmode">> THEN <<S("-quit"), S("-batchmode")>>
        ELSE IF custom = Undefined THEN <<>>
        ELSE <<S("-nographics"), S("-logfile"), <<"my", " ", "log">>>>

\* C6: in custom mode the command is the mandatory arguments -batchmode,
\* -buildTarget <target>, -projectPath <path> followed by the arguments of the
\* custom string and nothing else, whatever the flag inputs and the log file
\* name are; the script is not written and editorLogFilePath is not set; no run
\* takes both branches.
C6_CustomModeCommand ==
    LET mode == inputs["commandLineArgumentsMode"]
        mandatory == <<S("-batchmode"), S("-buildTarget"), inputs["buildTarget"],
                       S("-projectPath"), inputs["unityProjectPath"]>>
    IN  /\ (mode \notin {Unread, Undefined, S("default")})
               => /\ pc \in {"customLine", "execSync", "catch", "done"}
                  /\ unityCmd.args =
                        (IF Executed("customLine") THEN mandatory \o CustomArgumentsGiven
                         ELSE mandatory)
                  /\ \A label \in DefaultModeStatements : ~Executed(label)
                  /\ ~fs.script.written
                  /\ variables.editorLogFilePath = Undefined
        /\ ~(Executed("customLine") /\ \E label \in DefaultModeStatements : Executed(label))
        /\ Executed("customLine") => mode # S("default")
        /\ (\E label \in DefaultModeStatements : Executed(label)) => mode = S("default")
        /\ Executed("execSync") => (Executed("customLine") <=> ~Executed("logFile"))

\* C6 witness: a custom-mode run with "-quit -batchmode", with noGraphics and a
\* log file name configured, has run the command of seven arguments.
C6_Witness ==
    /\ pc = "done"
    /\ exitCode = 0
    /\ inputs["commandLineArgumentsMode"] = S("custom")
    /\ inputs["customCommandLineArguments"] = <<"-quit", " ", "-batchmode">>
    /\ inputs["noGraphics"] = S("true")
    /\ inputs["logFileName"] = S("build.log")
    /\ inputs["buildTarget"] = S("Android")
    /\ Len(unityCmd.args) = 7
    /\ SubSeq(unityCmd.args, 6, 7) = <<S("-quit"), S("-batchmode")>>

\* ---- C7

OutputPrepared == pc = "setBuildOutputPath" \/ Executed("setBuildOutputPath")

FirstColon(content) ==
    IF \E i \in 1..Len(content) : content[i] = ":"
    THEN CHOOSE i \in 1..Len(content) : content[i] = ":" /\ \A j \in 1..(i - 1) : content[j] # ":"
    ELSE 0

\* The place after the first colon where the version text ends: the next colon
\* or revision marker, or the end of the text.
VersionEnd(content) ==
    LET c == FirstColon(content)
        stops == {i \in (c + 1)..Len(content) : content[i] \in {":", "m_EditorVersionWithRevision"}}
    IN  IF stops = {} THEN Len(content) + 1
        ELSE CHOOSE i \in stops : \A j \in stops : i <= j

\* C9: the version returned holds no revision marker and no white space at
\* either end, and is the text between the first colon and the marker (or the
\* next colon, or the end) without the white space around it; for
\* ": 2021.3.1f1 m_EditorVersionWithRevision" it is 2021.3.1f1; and when the file
\* cannot be read, has no colon, or that text is empty, getBuildConfiguration
\* throws and returns no configuration.
C9_VersionParsing ==
    LET content == inputs["ProjectVersion.txt"]
        version == unityBuildConfiguration.unityVersion
        returned == unityBuildConfiguration # NoConfiguration
        c == FirstColon(content)
        e == VersionEnd(content)
        blank == \A i \in (c + 1)..(e - 1) : content[i] \in {" ", "\n"}
        rejectedTarget == inputs["buildTarget"] = S("WindowsStoreApps") /\ platform # "win32"
    IN  /\ returned
               => /\ version # <<>> /\ version # Undefined
                  /\ \A i \in 1..Len(version) : version[i] # "m_EditorVersionWithRevision"
                  /\ version[1] \notin {" ", "\n"} /\ version[Len(version)] \notin {" ", "\n"}
                  /\ content # Undefined /\ c > 0
                  /\ \E i, j \in (c + 1)..(e - 1) :
                        /\ i <= j /\ version = SubSeq(content, i, j)
                        /\ \A k \in ((c + 1)..(i - 1)) \cup ((j + 1)..(e - 1)) : content[k] \in {" ", "\n"}
        /\ (content = <<":", " ", "2021.3.1f1", " ", "m_EditorVersionWithRevision">> /\ ~rejectedTarget)
               => returned /\ version = S("2021.3.1f1")
        /\ (content # Unread /\ (content = Undefined \/ c = 0 \/ blank))
               => /\ ~returned
                  /\ err # NoError
                  /\ pc \in {"catch", "done"}
                  /\ pc = "done" => result.status = "Failed"
        /\ (content \notin {Unread, Undefined} /\ c > 0 /\ ~blank /\ ~rejectedTarget) => returned

\* C9 witness: the file ": 2021.3.1f1 m_EditorVersionWithRevision" gave 2021.3.1f1.
C9_Witness ==
    /\ inputs["ProjectVersion.txt"] = <<":", " ", "2021.3.1f1", " ", "m_EditorVersionWithRevision">>
    /\ unityBuildConfiguration.unityVersion = S("2021.3.1f1")
    /\ pc = "getUnityEditorsPath"

\* ---- C10

\* The run has touched the file system or set a pipeline variable.
SideEffect ==
    \/ fs.outputDirectory # outputDirectoryAtStart
    \/ fs.script.written
    \/ \E label \in {"removeOutput", "mkdirOutput", "mkdirAssetsEditor", "writeScript"} : Executed(label)
    \/ variables.buildOutputPath # Undefined
    \/ variables.editorLogFilePath # Undefined

\* The three validations have succeeded.
Validated ==
    /\ Executed("getBuildConfiguration") /\ Executed("getUnityEditorsPath")
    /\ Executed("checkEditorDirectory")
    /\ unityBuildConfiguration # NoConfiguration
    /\ unityBuildConfiguration.unityVersion \notin {Undefined, <<>>}
    /\ ~(platform # "win32" /\ inputs["buildTarget"] = S("WindowsStoreApps"))
    /\ unityEditorsPath \notin {Undefined, <<>>}
    /\ unityEditorDirectory # Undefined
    /\ fs.editorDirectory
    /\ Thrower \notin {"getBuildConfiguration", "getUnityEditorsPath", "checkEditorDirectory"}

\* C10: nothing is deleted, created or written and no pipeline variable is set
\* unless the configuration, the editors path and the editor directory check
\* have succeeded; and in the default mode AzureDevOps.cs is written in
\* Assets/Editor before -executeMethod AzureDevOps.PerformBuild is appended and
\* before the editor process is launched.
C10_ValidationBeforeSideEffects ==
    LET args == unityCmd.args
    IN  /\ SideEffect => Validated
        /\ (\E i \in 1..Len(args) : args[i] = S("-executeMethod"))
               => /\ fs.script.written
                  /\ Executed("writeScript") /\ Executed("executeMethod")
                  /\ Position("writeScript") < Position("executeMethod")
                  /\ \E i \in 1..(Len(args) - 1) :
                        args[i] = S("-executeMethod") /\ args[i + 1] = S("AzureDevOps.PerformBuild")
        /\ (Executed("execSync") /\ inputs["commandLineArgumentsMode"] = S("default"))
               => /\ fs.script.written /\ fs.assetsEditor
                  /\ fs.script.path =
                        inputs["unityProjectPath"]
                            \o <<PathSep(platform), "Assets", PathSep(platform), "Editor",
                                  PathSep(platform), "AzureDevOps.cs">>
                  /\ fs.script.content = unityBuildConfiguration
                  /\ Position("writeScript") < Position("execSync")
                  /\ \E i \in 1..Len(args) : args[i] = S("-executeMethod")

\* C10 witness: a default-mode run wrote the script and then ran the editor.
C10_Witness ==
    /\ pc = "done"
    /\ exitCode = 0
    /\ inputs["commandLineArgumentsMode"] = S("default")
    /\ fs.script.written
    /\ ~outputDirectoryAtStart.kind = "dir"
    /\ variables.buildOutputPath # Undefined

====
